---- MODULE Spec2Model ----
(***************************************************************************)
(* A model of the how-to generation pipeline of server/rag.py and of the   *)
(* content-addressed image cache of server/image_gen.py, and of the        *)
(* vector collection of server/qdrant_client.py.                           *)
(*                                                                         *)
(* Generator output is modelled as a sequence of lexical tokens: a code    *)
(* fence, the json tag, whitespace, braces, commas, object members, a      *)
(* number, an array and prose.  Every token is atomic for the two regular  *)
(* expressions of _extract_json: none contains a backtick or a brace       *)
(* except the fence and the brace tokens themselves.                       *)
(***************************************************************************)
EXTENDS Naturals, Sequences, FiniteSets, TLC

VARIABLES
    ex_pc, ex_text, ex_result,
    bp_pc, bp_question, bp_context, bp_prompt,
    rg_pc, rg_question, rg_credential, rg_model, rg_retrieval, rg_context,
    rg_data, rg_error, rg_calls,
    im_pc, im_calls, im_steps, im_i, im_out, im_off, im_handle, im_dir,
    im_inode, im_next, im_stored, im_sawStored, im_fault, im_failed,
    im_data,
    qd_pc, qd_arg, qd_exists, qd_size, qd_points, qd_ensured, qd_wiped

exVars == <<ex_pc, ex_text, ex_result>>

bpVars == <<bp_pc, bp_question, bp_context, bp_prompt>>

rgVars == <<rg_pc, rg_question, rg_credential, rg_model, rg_retrieval,
            rg_context, rg_data, rg_error, rg_calls>>

imVars == <<im_pc, im_calls, im_steps, im_i, im_out, im_off, im_handle, im_dir,
            im_inode, im_next, im_stored, im_sawStored, im_fault, im_failed,
            im_data>>

qdVars == <<qd_pc, qd_arg, qd_exists, qd_size, qd_points, qd_ensured, qd_wiped>>

vars == <<exVars, bpVars, rgVars, imVars, qdVars>>

-----------------------------------------------------------------------------
(* Bounds of the model. *)

MaxTextLen == 5

MaxContext == 2

NProcs == 2

MaxSteps == 2

ImgChunks == 2

MaxCalls == 2

MaxPoints == 3

-----------------------------------------------------------------------------
(* JSON values.  Every value is a record [type, len, text]: len is the     *)
(* length of an array, text the content of a string or of a boolean (a     *)
(* sequence of words) or, for an array of steps, the title of its first    *)
(* step.                                                                   *)

Str(s) == [type |-> "str", len |-> 0, text |-> s]

List(n, s) == [type |-> "list", len |-> n, text |-> s]

Num == [type |-> "num", len |-> 0, text |-> <<>>]

Null == [type |-> "null", len |-> 0, text |-> <<>>]

Bool(b) == [type |-> "bool", len |-> 0, text |-> IF b THEN <<"true">> ELSE <<"false">>]

(* What json.loads or a raised exception yields: kind is object, number,   *)
(* list or error; fields maps the keys of an object.                       *)
EmptyFields == [k \in {} |-> Null]

JObject(f) == [kind |-> "object", fields |-> f]

JNumber == [kind |-> "number", fields |-> EmptyFields]

JList == [kind |-> "list", fields |-> EmptyFields]

Raised == [kind |-> "error", fields |-> EmptyFields]

Pending == [kind |-> "pending", fields |-> EmptyFields]

-----------------------------------------------------------------------------
(* Tokens of generator output. *)

FENCE == "fence3"

TAG == "json"

WS == " "

LB == "{"

RB == "}"

COMMA == ","

NUM == "3"

ARR == "[1]"

PROSE == "x"

MemberTokens ==
    { "a:1", "title:str", "title:null", "title:num", "description:str",
      "steps:list2", "steps:list0", "steps:null", "steps:str", "pro_tip:str",
      "troubleshooting:list0", "safety:list0", "safety:null",
      "abstain:true", "extra:str" }

MemberKey(t) ==
    CASE t = "a:1" -> "a"
      [] t \in {"title:str", "title:null", "title:num"} -> "title"
      [] t = "description:str" -> "description"
      [] t \in {"steps:list2", "steps:list0", "steps:null", "steps:str"} -> "steps"
      [] t = "pro_tip:str" -> "pro_tip"
      [] t = "troubleshooting:list0" -> "troubleshooting"
      [] t \in {"safety:list0", "safety:null"} -> "safety"
      [] t = "abstain:true" -> "abstain"
      [] OTHER -> "extra"

MemberVal(t) ==
    CASE t \in {"a:1", "title:num"} -> Num
      [] t \in {"title:null", "steps:null", "safety:null"} -> Null
      [] t = "steps:list2" -> List(2, <<"model">>)
      [] t \in {"steps:list0", "troubleshooting:list0", "safety:list0"} -> List(0, <<>>)
      [] t = "abstain:true" -> Bool(TRUE)
      [] OTHER -> Str(<<"model">>)

-----------------------------------------------------------------------------
(* json.loads on a token sequence.  Whitespace is insignificant between    *)
(* tokens; an object is members separated by commas between braces; a     *)
(* repeated key keeps its last value.                                      *)

NoWs(s) == SelectSeq(s, LAMBDA t : t # WS)

IsMemberList(m) ==
    /\ Len(m) % 2 = 1
    /\ \A i \in 1..Len(m) :
          IF i % 2 = 1 THEN m[i] \in MemberTokens ELSE m[i] = COMMA

FieldsOf(m) ==
    LET idx == {i \in 1..Len(m) : m[i] \in MemberTokens}
        keys == {MemberKey(m[i]) : i \in idx}
        last(k) == CHOOSE i \in idx :
                      /\ MemberKey(m[i]) = k
                      /\ \A j \in idx : MemberKey(m[j]) = k => j <= i
    IN  [k \in keys |-> MemberVal(m[last(k)])]

json_loads(s) ==
    LET t == NoWs(s)
        n == Len(t)
    IN  IF n = 1 /\ t[1] = NUM THEN JNumber
        ELSE IF n = 1 /\ t[1] = ARR THEN JList
        ELSE IF n = 2 /\ t[1] = LB /\ t[2] = RB THEN JObject(EmptyFields)
        ELSE IF n > 2 /\ t[1] = LB /\ t[n] = RB
                      /\ IsMemberList(SubSeq(t, 2, n - 1))
             THEN JObject(FieldsOf(SubSeq(t, 2, n - 1)))
        ELSE Raised

-----------------------------------------------------------------------------
(* _extract_json, rag.py 124-139. *)

(* str.strip(): drop leading and trailing whitespace.                      *)
RECURSIVE strip(_)
strip(s) ==
    IF s = <<>> THEN s
    ELSE IF Head(s) = WS THEN strip(Tail(s))
    ELSE IF s[Len(s)] = WS THEN strip(SubSeq(s, 1, Len(s) - 1))
    ELSE s

(* re.search with the fence pattern of line 130: the leftmost opening fence *)
(* that a later fence closes; the tag and the whitespace after the opening *)
(* fence are consumed before the group, which runs lazily to the next      *)
(* fence.  The value is group(1), or NoMatch when nothing matches.         *)
RECURSIVE SkipWs(_, _)
SkipWs(s, p) ==
    IF p <= Len(s) /\ s[p] = WS THEN SkipWs(s, p + 1) ELSE p

NoMatch == <<"nomatch">>

FenceSearch(s) ==
    LET opens == {i \in 1..Len(s) : s[i] = FENCE /\ \E j \in (i+1)..Len(s) : s[j] = FENCE}
    IN  IF opens = {} THEN NoMatch
        ELSE LET i == CHOOSE a \in opens : \A b \in opens : a <= b
                 p == IF i + 1 <= Len(s) /\ s[i + 1] = TAG THEN i + 2 ELSE i + 1
                 q == SkipWs(s, p)
                 j == CHOOSE c \in q..Len(s) :
                         s[c] = FENCE /\ \A d \in q..(c - 1) : s[d] # FENCE
             IN  SubSeq(s, q, j - 1)

(* re.search with the brace pattern of line 135: greedy, from the first    *)
(* opening brace to the last closing brace.                                *)
BraceSearch(s) ==
    LET lbs == {i \in 1..Len(s) : s[i] = LB}
        rbs == {i \in 1..Len(s) : s[i] = RB}
    IN  IF lbs = {} \/ rbs = {} THEN NoMatch
        ELSE LET a == CHOOSE i \in lbs : \A k \in lbs : i <= k
                 b == CHOOSE i \in rbs : \A k \in rbs : k <= i
             IN  IF b > a THEN SubSeq(s, a, b) ELSE NoMatch

(* The two searches in the other order: braces first, then the fence.      *)
extract_json_brace_first(text) ==
    IF text = <<>> THEN Raised
    ELSE LET brace == BraceSearch(text)
             t1 == IF brace # NoMatch THEN brace ELSE text
             fence == FenceSearch(t1)
             t2 == IF fence # NoMatch THEN strip(fence) ELSE t1
         IN  json_loads(t2)

(* Extraction that answers with an empty object where it should fail.      *)
extract_json_or_empty(text) ==
    LET fence == FenceSearch(text)
        t1 == IF fence # NoMatch THEN strip(fence) ELSE text
        brace == BraceSearch(t1)
        t2 == IF brace # NoMatch THEN brace ELSE t1
        r == json_loads(t2)
    IN  IF r = Raised THEN JObject(EmptyFields) ELSE r

_extract_json(text) ==
    IF text = <<>> THEN Raised
    ELSE LET fence == FenceSearch(text)
             t1 == IF fence # NoMatch THEN strip(fence) ELSE text
             brace == BraceSearch(t1)
             t2 == IF brace # NoMatch THEN brace ELSE t1
         IN  json_loads(t2)

-----------------------------------------------------------------------------
(* Extraction on its own: the generator text is any token sequence up to   *)
(* MaxTextLen, or one of the two documented examples.                      *)

ExtractAlphabet == {FENCE, TAG, WS, LB, RB, "a:1", PROSE, NUM}

RECURSIVE SeqsUpTo(_, _)
SeqsUpTo(S, n) ==
    IF n = 0 THEN {<<>>}
    ELSE LET shorter == SeqsUpTo(S, n - 1)
         IN  shorter \cup {Append(s, t) : s \in {u \in shorter : Len(u) = n - 1}, t \in S}

(* Prose, a tagged fenced object, prose; and noise, an object, trailing.   *)
FencedExample == <<PROSE, WS, FENCE, TAG, WS, LB, "a:1", RB, WS, FENCE, WS, PROSE>>

NoisyExample == <<PROSE, WS, LB, "a:1", RB, WS, PROSE>>

(* Braces and prose outside the fence, an object inside it.                *)
BracesOutsideExample == <<LB, PROSE, FENCE, LB, "a:1", RB, FENCE, PROSE, RB>>

ExampleTexts == {FencedExample, NoisyExample, BracesOutsideExample}

ExIdle == ex_pc = "off" /\ ex_text = <<>> /\ ex_result = Pending

Extract ==
    /\ ex_pc = "input"
    /\ ex_result' = _extract_json(ex_text)
    /\ ex_pc' = "done"
    /\ UNCHANGED ex_text
    /\ UNCHANGED <<bpVars, rgVars, imVars, qdVars>>

-----------------------------------------------------------------------------
(* Questions and retrieved passages.  A question is a sequence of words;   *)
(* a passage is what retrieve builds from a hit's payload, rag.py 55-58.   *)

AbstainText ==
    "- If the context does not contain enough information to answer, set steps: [] and include only abstain: true."

GeneralText == "- Use general knowledge and best practices to answer."

Questions ==
    { <<"How do I", WS, "reset", WS, "WiFi">>,
      <<"How to", WS, "reset">>,
      <<"how to", WS, "reset">>,
      <<"HOW TO", WS, "reset">>,
      <<"reset", WS, "WiFi">>,
      <<AbstainText>> }

Passages ==
    { [text |-> <<"Hold the reset button for ten seconds.">>, source |-> "manual.txt"],
      [text |-> <<GeneralText>>, source |-> "notes.docx"],
      [text |-> <<>>, source |-> ""] }

Contexts == SeqsUpTo(Passages, MaxContext)

-----------------------------------------------------------------------------
(* _build_prompt, rag.py 73-120.  A prompt is the sequence of its lines;   *)
(* a line is [kind, idx, text]: a line of the template, the line carrying  *)
(* the question, or the line of passage idx.                               *)

TemplateLine(s) == [kind |-> "template", idx |-> 0, text |-> <<s>>]

IntroUngrounded ==
    TemplateLine("You are a careful technical writer. Write a step-action how-to guide as JSON with this schema:")

IntroGrounded ==
    TemplateLine("You are a careful technical writer. Using ONLY the information below, write a step-action how-to guide as JSON with this schema:")

SchemaLines == TemplateLine("{ title, description, steps, pro_tip, troubleshooting, safety }")

RulesHeader == TemplateLine("Rules:")

GeneralKnowledgeRule == TemplateLine(GeneralText)

AbstainRule == TemplateLine(AbstainText)

ConciseRule == TemplateLine("- Keep each step concise and atomic.")

ToneRule == TemplateLine("- Keep tone neutral and instructional.")

QuestionLine(q) == [kind |-> "question", idx |-> 0, text |-> q]

ContextHeader == TemplateLine("Context:")

PassageLine(i, c) == [kind |-> "passage", idx |-> i, text |-> c.text]

OnlyJsonLine == TemplateLine("Respond with ONLY JSON (no commentary).")

(* The grounded template whatever the context.                             *)
build_prompt_always_grounded(question, context) ==
    <<IntroGrounded, SchemaLines, RulesHeader, AbstainRule, ConciseRule,
      ToneRule, QuestionLine(question), ContextHeader>>
    \o [i \in 1..Len(context) |-> PassageLine(i, context[i])]
    \o <<OnlyJsonLine>>

_build_prompt(question, context) ==
    IF context = <<>>
    THEN <<IntroUngrounded, SchemaLines, RulesHeader, GeneralKnowledgeRule,
           ConciseRule, ToneRule, QuestionLine(question), OnlyJsonLine>>
    ELSE <<IntroGrounded, SchemaLines, RulesHeader, AbstainRule, ConciseRule,
           ToneRule, QuestionLine(question), ContextHeader>>
         \o [i \in 1..Len(context) |-> PassageLine(i, context[i])]
         \o <<OnlyJsonLine>>

BpIdle ==
    /\ bp_pc = "off"
    /\ bp_question = <<>>
    /\ bp_context = <<>>
    /\ bp_prompt = <<>>

BuildPrompt ==
    /\ bp_pc = "input"
    /\ bp_prompt' = _build_prompt(bp_question, bp_context)
    /\ bp_pc' = "done"
    /\ UNCHANGED <<bp_question, bp_context>>
    /\ UNCHANGED <<exVars, rgVars, imVars, qdVars>>

-----------------------------------------------------------------------------
(* The scaffolds of generate_json, rag.py 203-218 and 227-244.             *)

removeprefix(s, p) == IF s # <<>> /\ Head(s) = p THEN Tail(s) ELSE s

(* str.lower() on a word.                                                  *)
Lower(w) ==
    CASE w \in {"How to", "HOW TO"} -> "how to"
      [] w = "How do I" -> "how do i"
      [] w = "WiFi" -> "wifi"
      [] w = AbstainText -> "- if the context does not contain enough information to answer, set steps: [] and include only abstain: true."
      [] OTHER -> w

(* The first character of a lower-case word in upper case.                 *)
UpperFirst(w) ==
    CASE w = "how to" -> "How to"
      [] w = "how do i" -> "How do i"
      [] w = "wifi" -> "Wifi"
      [] w = "reset" -> "Reset"
      [] OTHER -> w

(* str.capitalize(): first character upper case, the rest lower case.      *)
capitalize(s) ==
    [i \in 1..Len(s) |-> IF i = 1 THEN UpperFirst(Lower(s[i])) ELSE Lower(s[i])]

ScaffoldTitle(question) ==
    Str(<<"How to ">> \o
        capitalize(strip(removeprefix(removeprefix(question, "How do I"), "How to"))))

Fields7(title, description, steps, pro_tip, troubleshooting, safety, abstain) ==
    [k \in {"title", "description", "steps", "pro_tip", "troubleshooting",
            "safety", "abstain"} |->
        CASE k = "title" -> title
          [] k = "description" -> description
          [] k = "steps" -> steps
          [] k = "pro_tip" -> pro_tip
          [] k = "troubleshooting" -> troubleshooting
          [] k = "safety" -> safety
          [] OTHER -> abstain]

(* rag.py 203-218 *)
QuestionOnlyScaffold(question) ==
    JObject(Fields7(
        ScaffoldTitle(question),
        Str(<<"This guide was generated without RAG (question-only).">>),
        List(1, <<"Start with the basics">>),
        Str(<<"Add more details as you iterate.">>),
        List(0, <<>>),
        List(0, <<>>),
        Bool(FALSE)))

(* An abstain payload in place of the single-step scaffold.                *)
abstain_payload(question) ==
    JObject(Fields7(
        ScaffoldTitle(question),
        Str(<<"This guide was generated without LLM (fallback mode).">>),
        List(0, <<>>),
        Str(<<>>),
        List(0, <<>>),
        List(0, <<>>),
        Bool(TRUE)))

(* rag.py 227-244 *)
FallbackScaffold(question) ==
    JObject(Fields7(
        ScaffoldTitle(question),
        Str(<<"This guide was generated without LLM (fallback mode).">>),
        List(1, <<"Review the provided document">>),
        Str(<<"Add more detailed documents to your library for richer steps.">>),
        List(1, <<"Empty or vague results">>),
        List(0, <<>>),
        Bool(FALSE)))

(* dict.setdefault for the six required keys, rag.py 247-252.              *)
RequiredKeys ==
    {"title", "description", "steps", "pro_tip", "troubleshooting", "safety"}

Default(k) ==
    IF k \in {"title", "description", "pro_tip"} THEN Str(<<>>) ELSE List(0, <<>>)

setdefaults(f) ==
    [k \in DOMAIN f \cup RequiredKeys |-> IF k \in DOMAIN f THEN f[k] ELSE Default(k)]

-----------------------------------------------------------------------------
(* generate_json, rag.py 185-254, with retrieve (28-63) and                *)
(* _call_llm_for_json (142-179) inlined as its steps.                      *)
(*                                                                         *)
(* Line 196 of rag.py is indented by three columns and the block it opens  *)
(* (197-218) by four and eight, so the file is rejected by the Python      *)
(* parser as it stands.  The model reads the text as the statements it     *)
(* spells out: the question-only block 197-218 is the body of the test of  *)
(* line 196, and control then falls through to the block of lines 221-244, *)
(* which assigns data again.                                               *)

(* What the generation backend may answer with.                            *)
GenTexts ==
    { <<LB, "title:str", COMMA, "description:str", COMMA, "steps:list2", COMMA,
        "pro_tip:str", COMMA, "troubleshooting:list0", COMMA, "safety:list0", RB>>,
      <<PROSE, FENCE, TAG, WS, LB, "title:str", COMMA, "steps:list2", RB, FENCE>>,
      <<LB, "steps:list0", COMMA, "abstain:true", RB>>,
      <<LB, "title:null", COMMA, "steps:list2", RB>>,
      <<LB, "steps:str", COMMA, "title:num", RB>>,
      <<LB, "title:str", COMMA, "extra:str", RB>>,
      <<ARR>>,
      <<NUM>>,
      <<PROSE>>,
      <<>> }

(* except Exception (rag.py 200 and 224) catches every exception that      *)
(* _call_llm_for_json raises: the RuntimeError of a missing credential     *)
(* (149) and the RuntimeError of a failed call (179).                      *)
except_all_but_config(e) == e # "RuntimeError: OPENAI_API_KEY not set"

except_Exception(e) == TRUE

Stages == {"qo", "llm"}

StageContext(st) == IF st = "qo" THEN <<>> ELSE rg_context

StageScaffold(st) ==
    IF st = "qo" THEN QuestionOnlyScaffold(rg_question)
    ELSE FallbackScaffold(rg_question)

AfterStage(st) == IF st = "qo" THEN <<"llm", "enter">> ELSE <<"normalize", "">>

(* os.getenv("OPENAI_MODEL", "gpt-4o-mini"), rag.py 152.                    *)
DefaultModel == "gpt-4o-mini"

Models == {DefaultModel, "gpt-4o"}

(* The interface raised instead of answering with a text.                   *)
NoText == <<"no text">>

(* One invocation of a generation interface: the prompt and the model it   *)
(* was given (the locals of rag.py 152-153), the text it answered with     *)
(* (NoText when create raised), and what the try block made of it: the     *)
(* value _extract_json parsed, or Raised.                                  *)
CallRecord(st, iface, text) ==
    LET result == IF text = NoText THEN Raised ELSE _extract_json(text)
    IN  [stage |-> st, iface |-> iface,
         prompt |-> _build_prompt(rg_question, StageContext(st)),
         model |-> rg_model,
         text |-> text,
         ok |-> result.kind # "error",
         result |-> result]

RgIdle ==
    /\ rg_pc = <<"off", "">>
    /\ rg_question = <<>>
    /\ rg_credential = FALSE
    /\ rg_model = DefaultModel
    /\ rg_retrieval = "none"
    /\ rg_context = <<>>
    /\ rg_data = Pending
    /\ rg_error = "none"
    /\ rg_calls = <<>>

RgInit ==
    /\ rg_pc = <<"retrieve", "">>
    /\ rg_question \in Questions
    /\ rg_credential \in BOOLEAN
    /\ rg_model \in Models
    /\ rg_retrieval = "none"
    /\ rg_context = <<>>
    /\ rg_data = Pending
    /\ rg_error = "none"
    /\ rg_calls = <<>>

(* retrieve, rag.py 28-63: any exception of the imports, of the embedding  *)
(* or of the search yields [].                                             *)
RetrieveHits ==
    /\ rg_pc = <<"retrieve", "">>
    /\ \E hits \in Contexts :
          /\ rg_context' = hits
          /\ rg_retrieval' = "hits"
          /\ rg_pc' = IF hits = <<>> THEN <<"qo", "enter">> ELSE <<"llm", "enter">>
    /\ UNCHANGED <<rg_question, rg_credential, rg_model, rg_data, rg_error, rg_calls>>
    /\ UNCHANGED <<exVars, bpVars, imVars, qdVars>>

RetrievalErrors == {"import_error", "embed_error", "search_error"}

(* A retrieve that hands back the passages of an earlier search when the   *)
(* index raises.                                                           *)
retrieve_stale_on_error ==
    /\ rg_pc = <<"retrieve", "">>
    /\ rg_retrieval' \in RetrievalErrors
    /\ \E hits \in Contexts \ {<<>>} : rg_context' = hits
    /\ rg_pc' = <<"llm", "enter">>
    /\ UNCHANGED <<rg_question, rg_credential, rg_model, rg_data, rg_error, rg_calls>>
    /\ UNCHANGED <<exVars, bpVars, imVars, qdVars>>

RetrieveFails ==
    /\ rg_pc = <<"retrieve", "">>
    /\ rg_retrieval' \in RetrievalErrors
    /\ rg_context' = <<>>
    /\ rg_pc' = <<"qo", "enter">>
    /\ UNCHANGED <<rg_question, rg_credential, rg_model, rg_data, rg_error, rg_calls>>
    /\ UNCHANGED <<exVars, bpVars, imVars, qdVars>>

(* An exception e leaves _call_llm_for_json in stage st: the handler of    *)
(* generate_json builds the stage's scaffold.                              *)
Handle(st, e) ==
    IF except_Exception(e)
    THEN /\ rg_data' = StageScaffold(st)
         /\ rg_pc' = AfterStage(st)
         /\ UNCHANGED rg_error
    ELSE /\ rg_pc' = <<"raised", "">>
         /\ rg_error' = e
         /\ UNCHANGED rg_data

(* A call that goes to the primary interface without looking at the       *)
(* credential.                                                             *)
enter_call_unchecked(st) ==
    /\ rg_pc = <<st, "enter">>
    /\ rg_pc' = <<st, "primary">>
    /\ UNCHANGED <<rg_data, rg_error>>
    /\ UNCHANGED <<rg_question, rg_credential, rg_model, rg_retrieval, rg_context, rg_calls>>
    /\ UNCHANGED <<exVars, bpVars, imVars, qdVars>>

(* rag.py 147-153 *)
EnterCall(st) ==
    /\ rg_pc = <<st, "enter">>
    /\ IF ~rg_credential
       THEN Handle(st, "RuntimeError: OPENAI_API_KEY not set")
       ELSE /\ rg_pc' = <<st, "primary">>
            /\ UNCHANGED <<rg_data, rg_error>>
    /\ UNCHANGED <<rg_question, rg_credential, rg_model, rg_retrieval, rg_context, rg_calls>>
    /\ UNCHANGED <<exVars, bpVars, imVars, qdVars>>

(* The secondary interface is invoked whatever the primary did.            *)
primary_then_always_secondary(st) ==
    /\ rg_pc = <<st, "primary">>
    /\ \E text \in GenTexts :
          LET r == _extract_json(text)
          IN  /\ rg_calls' = Append(rg_calls, CallRecord(st, "primary", text))
              /\ rg_pc' = <<st, "secondary">>
              /\ IF r.kind = "error" THEN UNCHANGED rg_data ELSE rg_data' = r
    /\ UNCHANGED <<rg_question, rg_credential, rg_model, rg_retrieval, rg_context, rg_error>>
    /\ UNCHANGED <<exVars, bpVars, imVars, qdVars>>

(* rag.py 155-166: the responses interface answers with a text, which is   *)
(* extracted inside the try, or raises.                                    *)
PrimaryAnswers(st) ==
    /\ rg_pc = <<st, "primary">>
    /\ \E text \in GenTexts :
          LET r == _extract_json(text)
          IN  IF r.kind = "error"
              THEN /\ rg_pc' = <<st, "secondary">>
                   /\ rg_calls' = Append(rg_calls, CallRecord(st, "primary", text))
                   /\ UNCHANGED rg_data
              ELSE /\ rg_data' = r
                   /\ rg_pc' = AfterStage(st)
                   /\ rg_calls' = Append(rg_calls, CallRecord(st, "primary", text))
    /\ UNCHANGED <<rg_question, rg_credential, rg_model, rg_retrieval, rg_context, rg_error>>
    /\ UNCHANGED <<exVars, bpVars, imVars, qdVars>>

PrimaryRaises(st) ==
    /\ rg_pc = <<st, "primary">>
    /\ rg_pc' = <<st, "secondary">>
    /\ rg_calls' = Append(rg_calls, CallRecord(st, "primary", NoText))
    /\ UNCHANGED <<rg_question, rg_credential, rg_model, rg_retrieval, rg_context, rg_data, rg_error>>
    /\ UNCHANGED <<exVars, bpVars, imVars, qdVars>>

(* rag.py 167-179 *)
SecondaryAnswers(st) ==
    /\ rg_pc = <<st, "secondary">>
    /\ \E text \in GenTexts :
          LET r == _extract_json(text)
          IN  IF r.kind = "error"
              THEN /\ Handle(st, "RuntimeError: LLM call failed")
                   /\ rg_calls' = Append(rg_calls, CallRecord(st, "secondary", text))
              ELSE /\ rg_data' = r
                   /\ rg_pc' = AfterStage(st)
                   /\ rg_calls' = Append(rg_calls, CallRecord(st, "secondary", text))
                   /\ UNCHANGED rg_error
    /\ UNCHANGED <<rg_question, rg_credential, rg_model, rg_retrieval, rg_context>>
    /\ UNCHANGED <<exVars, bpVars, imVars, qdVars>>

SecondaryRaises(st) ==
    /\ rg_pc = <<st, "secondary">>
    /\ Handle(st, "RuntimeError: LLM call failed")
    /\ rg_calls' = Append(rg_calls, CallRecord(st, "secondary", NoText))
    /\ UNCHANGED <<rg_question, rg_credential, rg_model, rg_retrieval, rg_context>>
    /\ UNCHANGED <<exVars, bpVars, imVars, qdVars>>

(* rag.py 246-254: setdefault is a method of dict only.                    *)
Normalize ==
    /\ rg_pc = <<"normalize", "">>
    /\ IF rg_data.kind = "object"
       THEN /\ rg_data' = JObject(setdefaults(rg_data.fields))
            /\ rg_pc' = <<"returned", "">>
            /\ UNCHANGED rg_error
       ELSE /\ rg_pc' = <<"raised", "">>
            /\ rg_error' = "AttributeError: object has no attribute setdefault"
            /\ UNCHANGED rg_data
    /\ UNCHANGED <<rg_question, rg_credential, rg_model, rg_retrieval, rg_context, rg_calls>>
    /\ UNCHANGED <<exVars, bpVars, imVars, qdVars>>

RagNext ==
    \/ RetrieveHits
    \/ RetrieveFails
    \/ \E st \in Stages :
          \/ EnterCall(st)
          \/ PrimaryAnswers(st)
          \/ PrimaryRaises(st)
          \/ SecondaryAnswers(st)
          \/ SecondaryRaises(st)
    \/ Normalize

-----------------------------------------------------------------------------
(* The image cache, image_gen.py.  Files are inodes: a directory entry     *)
(* (the final path <key>.png or the temporary path <key>.png.tmp) names an *)
(* inode, and an open file writes to the inode it was opened on, whatever  *)
(* the paths that name it by then.  The content of an inode is a sequence  *)
(* of chunks; a chunk <<p, c, i, n>> is part n of the image generated in   *)
(* call c of worker p for its step i, and Hole is a run of zero bytes.     *)

(* image_gen.py 19-23: the values of a default environment.                *)
IMAGE_PROVIDER == "openai"

IMAGE_STYLE == "instructional diagram, flat UI, neutral background, clear labels, no clutter"

NONE == "<None>"

(* (s.get(name) or "").strip(), image_gen.py 145-146 *)
OrEmptyStrip(v) == IF v \in {NONE, " ", ""} THEN "" ELSE v

(* The steps a document may carry: a step with title and action, a step    *)
(* with an action only, and a step with no content.                        *)
StepInputs ==
    { [title |-> "Open", action |-> "Tap"],
      [title |-> "", action |-> "Press"],
      [title |-> " ", action |-> NONE] }

Procs == 1..NProcs

Docs == SeqsUpTo(StepInputs, MaxSteps)

(* _slug, image_gen.py 33-34: the first 16 hex digits of the SHA-256 of    *)
(* the string, a function of the string alone.                             *)
_slug(s) == <<"sha256:16", s>>

(* image_gen.py 154 *)
CacheKey(title, action) ==
    _slug(<<title, "|", action, "|", IMAGE_STYLE, "|", IMAGE_PROVIDER>>)

StepKey(s) == CacheKey(OrEmptyStrip(s.title), OrEmptyStrip(s.action))

HasContent(s) == OrEmptyStrip(s.title) # "" \/ OrEmptyStrip(s.action) # ""

Keys == {StepKey(s) : s \in {t \in StepInputs : HasContent(t)}}

(* image_gen.py 155-156: OUT_DIR/<key>.png *)
fpath(key) == <<key, ".png">>

(* Writing in place: the temporary path is the final path.                 *)
tmp_path_in_place(path) == path

(* image_gen.py 164: fpath + ".tmp", the same for every writer of the key. *)
tmp_path(path) == <<path[1], ".png.tmp">>

Paths == {<<k, ext>> : k \in Keys, ext \in {".png", ".png.tmp"}}

NoUrl == [dir |-> "", name |-> <<>>, ext |-> ""]

(* image_gen.py 155 and 172 *)
ImageUrl(key) == [dir |-> "/static/images/", name |-> key, ext |-> ".png"]

(* The step carries no image_error key.                                     *)
NoError == <<>>

(* An exception: the name of its type and its message.                     *)
Exc(kind, msg) == [kind |-> kind, msg |-> msg]

NoException == Exc("", "")

(* image_gen.py 169: the name of the type, a colon and a space, str(e).    *)
FormatError(e) == <<e.kind, ": ", e.msg>>

InStep(s) == [title |-> s.title, action |-> s.action,
              image_url |-> NoUrl, image_error |-> NoError]

NoFile == 0

MaxInodes == NProcs * MaxCalls * MaxSteps

Hole == <<0, 0, 0, 0>>

(* The bytes the backend returns in call c of worker p for its step i.     *)
ImageOf(p, c, i) == [n \in 1..ImgChunks |-> <<p, c, i, n>>]

(* Writing chunk c at offset off of a file.                                *)
WriteAt(content, off, c) ==
    [n \in 1..(IF Len(content) > off + 1 THEN Len(content) ELSE off + 1) |->
        IF n = off + 1 THEN c
        ELSE IF n <= Len(content) THEN content[n]
        ELSE Hole]

(* The document attach_step_images is given: its steps and, standing for   *)
(* its other top-level fields, a title, a description and abstain.  The    *)
(* document of call c of worker p is told apart by its title.              *)
InputData(p, c, steps) ==
    [title |-> <<"guide", p, c>>, description |-> "about", abstain |-> FALSE,
     steps |-> steps]

NoData == [title |-> <<>>, description |-> "", abstain |-> FALSE, steps |-> <<>>]

(* A fresh dict that carries the steps only.                               *)
set_steps_fresh_dict(data, out) == [NoData EXCEPT !.steps = out]

(* data["steps"] = out_steps, image_gen.py 175: the dict is the one the    *)
(* caller passed, with its other keys.                                     *)
SetSteps(data, out) == [data EXCEPT !.steps = out]

ImIdle ==
    /\ im_pc = [p \in Procs |-> "off"]
    /\ im_calls = [p \in Procs |-> 0]
    /\ im_steps = [p \in Procs |-> <<>>]
    /\ im_i = [p \in Procs |-> 0]
    /\ im_out = [p \in Procs |-> <<>>]
    /\ im_off = [p \in Procs |-> 0]
    /\ im_handle = [p \in Procs |-> NoFile]
    /\ im_dir = [f \in Paths |-> NoFile]
    /\ im_inode = [n \in 1..MaxInodes |-> <<>>]
    /\ im_next = 1
    /\ im_stored = [k \in Keys |-> FALSE]
    /\ im_sawStored = [p \in Procs |-> FALSE]
    /\ im_fault = FALSE
    /\ im_failed = [k \in Keys |-> "no"]
    /\ im_data = [p \in Procs |-> NoData]

(* The cache directory is empty and no call has begun.                     *)
ImInit ==
    /\ im_pc = [p \in Procs |-> "idle"]
    /\ im_calls = [p \in Procs |-> 0]
    /\ im_steps = [p \in Procs |-> <<>>]
    /\ im_i = [p \in Procs |-> 0]
    /\ im_out = [p \in Procs |-> <<>>]
    /\ im_off = [p \in Procs |-> 0]
    /\ im_handle = [p \in Procs |-> NoFile]
    /\ im_dir = [f \in Paths |-> NoFile]
    /\ im_inode = [n \in 1..MaxInodes |-> <<>>]
    /\ im_next = 1
    /\ im_stored = [k \in Keys |-> FALSE]
    /\ im_sawStored = [p \in Procs |-> FALSE]
    /\ im_fault = FALSE
    /\ im_failed = [k \in Keys |-> "no"]
    /\ im_data = [p \in Procs |-> NoData]

CurStep(p) == im_steps[p][im_i[p]]

CurKey(p) == StepKey(CurStep(p))

(* The image_url is attached to a step only when its image was stored.     *)
attach_url_on_success(p, e) ==
    /\ im_out' = [im_out EXCEPT ![p] = Append(@,
                    IF e = NoException
                    THEN [CurStep(p) EXCEPT !.image_url = ImageUrl(CurKey(p))]
                    ELSE [CurStep(p) EXCEPT !.image_error = FormatError(e)])]
    /\ IF im_i[p] < Len(im_steps[p])
       THEN /\ im_i' = [im_i EXCEPT ![p] = @ + 1]
            /\ im_pc' = [im_pc EXCEPT ![p] = "step"]
            /\ UNCHANGED im_data
       ELSE /\ im_pc' = [im_pc EXCEPT ![p] = "returned"]
            /\ im_data' = [im_data EXCEPT ![p] = SetSteps(@, im_out'[p])]
            /\ UNCHANGED im_i

(* image_gen.py 172-173 and the loop's next iteration, or 175-176 after    *)
(* the last step.  e is the exception the handler of 168-169 caught, or    *)
(* NoException.                                                            *)
AttachAndAdvance(p, e) ==
    /\ im_out' = [im_out EXCEPT ![p] = Append(@,
                    [CurStep(p) EXCEPT
                        !.image_url = ImageUrl(CurKey(p)),
                        !.image_error = IF e = NoException THEN NoError
                                        ELSE FormatError(e)])]
    /\ IF im_i[p] < Len(im_steps[p])
       THEN /\ im_i' = [im_i EXCEPT ![p] = @ + 1]
            /\ im_pc' = [im_pc EXCEPT ![p] = "step"]
            /\ UNCHANGED im_data
       ELSE /\ im_pc' = [im_pc EXCEPT ![p] = "returned"]
            /\ im_data' = [im_data EXCEPT ![p] = SetSteps(@, im_out'[p])]
            /\ UNCHANGED im_i

(* image_gen.py 141-142: attach_step_images is called with a document.     *)
Call(p) ==
    /\ im_pc[p] = "idle"
    /\ im_calls[p] < MaxCalls
    /\ im_calls' = [im_calls EXCEPT ![p] = @ + 1]
    /\ \E doc \in Docs :
          /\ im_steps' = [im_steps EXCEPT ![p] = [j \in 1..Len(doc) |-> InStep(doc[j])]]
          /\ im_data' = [im_data EXCEPT ![p] =
                InputData(p, im_calls'[p], [j \in 1..Len(doc) |-> InStep(doc[j])])]
          /\ IF doc = <<>>
             THEN /\ im_pc' = [im_pc EXCEPT ![p] = "returned"]
                  /\ im_i' = [im_i EXCEPT ![p] = 0]
             ELSE /\ im_pc' = [im_pc EXCEPT ![p] = "step"]
                  /\ im_i' = [im_i EXCEPT ![p] = 1]
    /\ im_out' = [im_out EXCEPT ![p] = <<>>]
    /\ UNCHANGED <<im_off, im_handle, im_dir, im_inode, im_next, im_stored,
                   im_sawStored, im_fault>>
    /\ UNCHANGED im_failed
    /\ UNCHANGED <<exVars, bpVars, rgVars, qdVars>>

(* The worker is ready for its next request; a worker that was killed is   *)
(* restarted.                                                              *)
NextRequest(p) ==
    /\ im_pc[p] \in {"returned", "crashed"}
    /\ im_calls[p] < MaxCalls
    /\ im_pc' = [im_pc EXCEPT ![p] = "idle"]
    /\ im_sawStored' = [im_sawStored EXCEPT ![p] = FALSE]
    /\ UNCHANGED <<im_calls, im_steps, im_i, im_out, im_off, im_handle, im_dir,
                   im_inode, im_next, im_stored, im_fault>>
    /\ UNCHANGED <<im_failed, im_data>>
    /\ UNCHANGED <<exVars, bpVars, rgVars, qdVars>>

(* image_gen.py 145-151: a step with no content is kept as it is.          *)
SkipEmpty(p) ==
    /\ im_pc[p] = "step"
    /\ ~HasContent(CurStep(p))
    /\ im_out' = [im_out EXCEPT ![p] = Append(@, CurStep(p))]
    /\ IF im_i[p] < Len(im_steps[p])
       THEN /\ im_i' = [im_i EXCEPT ![p] = @ + 1]
            /\ UNCHANGED <<im_pc, im_data>>
       ELSE /\ im_pc' = [im_pc EXCEPT ![p] = "returned"]
            /\ im_data' = [im_data EXCEPT ![p] = SetSteps(@, im_out'[p])]
            /\ UNCHANGED im_i
    /\ UNCHANGED <<im_calls, im_steps, im_off, im_handle, im_dir, im_inode,
                   im_next, im_stored, im_sawStored, im_fault>>
    /\ UNCHANGED im_failed
    /\ UNCHANGED <<exVars, bpVars, rgVars, qdVars>>

(* A lookup that never finds the file.                                     *)
path_exists_never(path) == FALSE

(* os.path.exists(fpath), image_gen.py 159 *)
path_exists(path) == im_dir[path] # NoFile

(* image_gen.py 154-159 and, on a hit, 172-173.  im_sawStored records      *)
(* whether an image had been stored for the key when the step began.       *)
CheckCache(p) ==
    /\ im_pc[p] = "step"
    /\ HasContent(CurStep(p))
    /\ im_sawStored' = [im_sawStored EXCEPT ![p] = im_stored[CurKey(p)]]
    /\ IF path_exists(fpath(CurKey(p)))
       THEN AttachAndAdvance(p, NoException)
       ELSE /\ im_pc' = [im_pc EXCEPT ![p] = "generate"]
            /\ UNCHANGED <<im_out, im_i, im_data>>
    /\ UNCHANGED <<im_calls, im_steps, im_off, im_handle, im_dir, im_inode,
                   im_next, im_stored, im_fault>>
    /\ UNCHANGED im_failed
    /\ UNCHANGED <<exVars, bpVars, rgVars, qdVars>>

(* image_gen.py 160-162: the backend returns the bytes of an image.        *)
GenerateOk(p) ==
    /\ im_pc[p] = "generate"
    /\ im_pc' = [im_pc EXCEPT ![p] = "open"]
    /\ UNCHANGED <<im_calls, im_steps, im_i, im_out, im_off, im_handle, im_dir,
                   im_inode, im_next, im_stored, im_sawStored, im_fault>>
    /\ UNCHANGED <<im_failed, im_data>>
    /\ UNCHANGED <<exVars, bpVars, rgVars, qdVars>>

(* A backend failure that leaves an empty file at the final path.          *)
generate_fails_caches_placeholder(p) ==
    /\ im_pc[p] = "generate"
    /\ AttachAndAdvance(p, Exc("RuntimeError", "Stability API error: 500"))
    /\ im_dir' = [im_dir EXCEPT ![fpath(CurKey(p))] = im_next]
    /\ im_next' = im_next + 1
    /\ im_fault' = TRUE
    /\ im_failed' = [im_failed EXCEPT ![CurKey(p)] = "failed"]
    /\ UNCHANGED <<im_calls, im_steps, im_off, im_handle, im_inode,
                   im_stored, im_sawStored>>
    /\ UNCHANGED <<exVars, bpVars, rgVars, qdVars>>

(* A backend failure that ends the loop: the steps after it are dropped.   *)
generate_fails_ends_loop(p) ==
    /\ im_pc[p] = "generate"
    /\ im_out' = [im_out EXCEPT ![p] = Append(@,
                    [CurStep(p) EXCEPT
                        !.image_error = FormatError(Exc("RuntimeError", "Stability API error: 500"))])]
    /\ im_pc' = [im_pc EXCEPT ![p] = "returned"]
    /\ im_data' = [im_data EXCEPT ![p] = SetSteps(@, im_out'[p])]
    /\ im_fault' = TRUE
    /\ UNCHANGED <<im_calls, im_steps, im_i, im_off, im_handle, im_dir, im_inode,
                   im_next, im_stored, im_sawStored>>
    /\ im_failed' = [im_failed EXCEPT ![CurKey(p)] = "failed"]
    /\ UNCHANGED <<exVars, bpVars, rgVars, qdVars>>

(* image_gen.py 162, 168-169: the backend raises.                          *)
GenerateFails(p) ==
    /\ im_pc[p] = "generate"
    /\ AttachAndAdvance(p, Exc("RuntimeError", "Stability API error: 500"))
    /\ im_fault' = TRUE
    /\ UNCHANGED <<im_calls, im_steps, im_off, im_handle, im_dir, im_inode,
                   im_next, im_stored, im_sawStored>>
    /\ im_failed' = [im_failed EXCEPT ![CurKey(p)] = "failed"]
    /\ UNCHANGED <<exVars, bpVars, rgVars, qdVars>>

(* open(tmp_path, "wb"), image_gen.py 164-165: creates the file, or        *)
(* truncates the file that is there.                                       *)
OpenTmp(p) ==
    /\ im_pc[p] = "open"
    /\ LET t == tmp_path(fpath(CurKey(p)))
       IN  IF im_dir[t] = NoFile
           THEN /\ im_dir' = [im_dir EXCEPT ![t] = im_next]
                /\ im_handle' = [im_handle EXCEPT ![p] = im_next]
                /\ im_next' = im_next + 1
                /\ UNCHANGED im_inode
           ELSE /\ im_inode' = [im_inode EXCEPT ![im_dir[t]] = <<>>]
                /\ im_handle' = [im_handle EXCEPT ![p] = im_dir[t]]
                /\ UNCHANGED <<im_dir, im_next>>
    /\ im_off' = [im_off EXCEPT ![p] = 0]
    /\ im_pc' = [im_pc EXCEPT ![p] = "write"]
    /\ UNCHANGED <<im_calls, im_steps, im_i, im_out, im_stored, im_sawStored, im_fault>>
    /\ UNCHANGED <<im_failed, im_data>>
    /\ UNCHANGED <<exVars, bpVars, rgVars, qdVars>>

(* f.write(img_bytes), image_gen.py 166: the bytes reach the file chunk by *)
(* chunk.                                                                  *)
WriteChunk(p) ==
    /\ im_pc[p] = "write"
    /\ im_off[p] < ImgChunks
    /\ im_inode' = [im_inode EXCEPT ![im_handle[p]] =
                      WriteAt(@, im_off[p],
                              ImageOf(p, im_calls[p], im_i[p])[im_off[p] + 1])]
    /\ im_off' = [im_off EXCEPT ![p] = @ + 1]
    /\ im_pc' = [im_pc EXCEPT ![p] = IF im_off[p] + 1 = ImgChunks THEN "replace" ELSE "write"]
    /\ UNCHANGED <<im_calls, im_steps, im_i, im_out, im_handle, im_dir, im_next,
                   im_stored, im_sawStored, im_fault>>
    /\ UNCHANGED <<im_failed, im_data>>
    /\ UNCHANGED <<exVars, bpVars, rgVars, qdVars>>

(* The write is interrupted by an error (a full disk, an I/O error): the   *)
(* with statement closes the file and the handler of line 168 records it.  *)
WriteFails(p) ==
    /\ im_pc[p] = "write"
    /\ im_off[p] < ImgChunks
    /\ AttachAndAdvance(p, Exc("OSError", "No space left on device"))
    /\ im_handle' = [im_handle EXCEPT ![p] = NoFile]
    /\ im_fault' = TRUE
    /\ UNCHANGED <<im_calls, im_steps, im_off, im_dir, im_inode, im_next,
                   im_stored, im_sawStored>>
    /\ UNCHANGED im_failed
    /\ UNCHANGED <<exVars, bpVars, rgVars, qdVars>>

(* The worker is killed between the open and the rename.                   *)
Crash(p) ==
    /\ im_pc[p] \in {"write", "replace"}
    /\ im_pc' = [im_pc EXCEPT ![p] = "crashed"]
    /\ im_handle' = [im_handle EXCEPT ![p] = NoFile]
    /\ im_fault' = TRUE
    /\ UNCHANGED <<im_calls, im_steps, im_i, im_out, im_off, im_dir, im_inode,
                   im_next, im_stored, im_sawStored>>
    /\ UNCHANGED <<im_failed, im_data>>
    /\ UNCHANGED <<exVars, bpVars, rgVars, qdVars>>

(* os.replace(tmp_path, fpath), image_gen.py 167: an atomic rename, which  *)
(* raises FileNotFoundError when the temporary path names no file.         *)
Replace(p) ==
    /\ im_pc[p] = "replace"
    /\ LET f == fpath(CurKey(p))
           t == tmp_path(f)
       IN  IF im_dir[t] = NoFile
           THEN /\ AttachAndAdvance(p, Exc("FileNotFoundError", "No such file or directory"))
                /\ UNCHANGED <<im_dir, im_stored, im_failed>>
           ELSE /\ im_dir' = [g \in Paths |->
                                IF g = f THEN im_dir[t]
                                ELSE IF g = t THEN NoFile
                                ELSE im_dir[g]]
                /\ im_stored' = [im_stored EXCEPT ![CurKey(p)] = TRUE]
                /\ im_failed' = [im_failed EXCEPT ![CurKey(p)] =
                                    IF @ = "failed" THEN "retried" ELSE @]
                /\ AttachAndAdvance(p, NoException)
    /\ im_handle' = [im_handle EXCEPT ![p] = NoFile]
    /\ UNCHANGED <<im_calls, im_steps, im_off, im_inode, im_next, im_sawStored, im_fault>>
    /\ UNCHANGED <<exVars, bpVars, rgVars, qdVars>>

Worker(p) ==
    \/ Call(p)
    \/ SkipEmpty(p)
    \/ CheckCache(p)
    \/ GenerateOk(p)
    \/ GenerateFails(p)
    \/ OpenTmp(p)
    \/ WriteChunk(p)
    \/ WriteFails(p)
    \/ Crash(p)
    \/ Replace(p)

(* Concurrent requests: every worker serves one request.                   *)
ImageNext == \E p \in Procs : Worker(p)

(* A single worker serving one request after the other.                    *)
SingleNext == Worker(1) \/ NextRequest(1)

-----------------------------------------------------------------------------
(* The vector collection, server/qdrant_client.py, and the upserts of       *)
(* server/ingest.py.  The store is the directory qdrant_data; it holds at   *)
(* most the one collection named COLLECTION.  qd_ensured and qd_wiped are   *)
(* history variables: whether a call of ensure_collection has returned,     *)
(* and the points that a call of ensure_collection removed from a           *)
(* collection that existed when the call was made.                          *)

(* ids of points; ingest.py 91 draws a fresh uuid4 for every point         *)
PointIds == 1..MaxPoints

(* the embedding dimension passed as vector_size, ingest.py 66 and 71 *)
VectorSizes == {384, 768}

NoSize == 0

QdIdle ==
    /\ qd_pc = "idle"
    /\ qd_arg = NoSize
    /\ qd_exists = FALSE
    /\ qd_size = NoSize
    /\ qd_points = {}
    /\ qd_ensured = FALSE
    /\ qd_wiped = {}

(* qdrant_client.py 9: the client opens the directory, in which a          *)
(* collection of an earlier run may be present.                            *)
QdInit ==
    /\ qd_pc = "idle"
    /\ qd_arg = NoSize
    /\ \/ qd_exists = FALSE /\ qd_size = NoSize
       \/ qd_exists = TRUE /\ qd_size \in VectorSizes
    /\ qd_points = {}
    /\ qd_ensured = FALSE
    /\ qd_wiped = {}

(* qdrant_client.py 11: ensure_collection(vector_size) is called.          *)
EnsureCollection(n) ==
    /\ qd_pc = "idle"
    /\ qd_pc' = "get"
    /\ qd_arg' = n
    /\ UNCHANGED <<qd_exists, qd_size, qd_points, qd_ensured, qd_wiped>>
    /\ UNCHANGED <<exVars, bpVars, rgVars, imVars>>

(* qdrant_client.py 15-17: get_collection returns, the call returns.       *)
GetFound ==
    /\ qd_pc = "get"
    /\ qd_exists
    /\ qd_pc' = "idle"
    /\ qd_arg' = NoSize
    /\ qd_ensured' = TRUE
    /\ UNCHANGED <<qd_exists, qd_size, qd_points, qd_wiped>>
    /\ UNCHANGED <<exVars, bpVars, rgVars, imVars>>

(* qdrant_client.py 16, 18-19: get_collection raises because there is no   *)
(* collection of that name.                                                *)
GetNotFound ==
    /\ qd_pc = "get"
    /\ ~qd_exists
    /\ qd_pc' = "recreate"
    /\ UNCHANGED <<qd_arg, qd_exists, qd_size, qd_points, qd_ensured, qd_wiped>>
    /\ UNCHANGED <<exVars, bpVars, rgVars, imVars>>

(* qdrant_client.py 16, 18-19: get_collection raises for another reason    *)
(* (the storage cannot be read, a timeout) while the collection is there;  *)
(* except Exception takes every exception the same way.                    *)
GetRaisesOther ==
    /\ qd_pc = "get"
    /\ qd_exists
    /\ qd_pc' = "recreate"
    /\ UNCHANGED <<qd_arg, qd_exists, qd_size, qd_points, qd_ensured, qd_wiped>>
    /\ UNCHANGED <<exVars, bpVars, rgVars, imVars>>

(* qdrant_client.py 21-24: recreate_collection deletes the collection of   *)
(* that name if there is one and creates an empty one of the given size.   *)
Recreate ==
    /\ qd_pc = "recreate"
    /\ qd_exists' = TRUE
    /\ qd_size' = qd_arg
    /\ qd_points' = {}
    /\ qd_wiped' = qd_wiped \cup qd_points
    /\ qd_pc' = "idle"
    /\ qd_arg' = NoSize
    /\ qd_ensured' = TRUE
    /\ UNCHANGED <<exVars, bpVars, rgVars, imVars>>

(* ingest.py 86-97: client.upsert of a batch of points with fresh ids.     *)
Upsert(batch) ==
    /\ qd_pc = "idle"
    /\ qd_exists
    /\ batch # {}
    /\ batch \cap (qd_points \cup qd_wiped) = {}
    /\ qd_points' = qd_points \cup batch
    /\ UNCHANGED <<qd_pc, qd_arg, qd_exists, qd_size, qd_ensured, qd_wiped>>
    /\ UNCHANGED <<exVars, bpVars, rgVars, imVars>>

QdrantNext ==
    \/ \E n \in VectorSizes : EnsureCollection(n)
    \/ GetFound
    \/ GetNotFound
    \/ GetRaisesOther
    \/ Recreate
    \/ \E batch \in SUBSET PointIds : Upsert(batch)

-----------------------------------------------------------------------------
(* The specifications: generate_json, and the pure functions on their own. *)

InitRag == ExIdle /\ BpIdle /\ RgInit /\ ImIdle /\ QdIdle

SpecRag == InitRag /\ [][RagNext]_vars

ExtractInit ==
    /\ ex_pc = "input"
    /\ \/ \E n \in 0..MaxTextLen : ex_text \in [1..n -> ExtractAlphabet]
       \/ ex_text \in ExampleTexts
    /\ ex_result = Pending

InitExtract == ExtractInit /\ BpIdle /\ RgIdle /\ ImIdle /\ QdIdle

SpecExtract == InitExtract /\ [][Extract]_vars

BpInit ==
    /\ bp_pc = "input"
    /\ bp_question \in Questions
    /\ bp_context \in Contexts
    /\ bp_prompt = <<>>

InitImage == ExIdle /\ BpIdle /\ RgIdle /\ ImInit /\ QdIdle

SpecImage == InitImage /\ [][ImageNext]_vars

SpecImageSingle == InitImage /\ [][SingleNext]_vars

InitPrompt == ExIdle /\ BpInit /\ RgIdle /\ ImIdle /\ QdIdle

SpecPrompt == InitPrompt /\ [][BuildPrompt]_vars

InitQdrant == ExIdle /\ BpIdle /\ RgIdle /\ ImIdle /\ QdInit

SpecQdrant == InitQdrant /\ [][QdrantNext]_vars

-----------------------------------------------------------------------------
(* Claims. *)

Min(S) == CHOOSE a \in S : \A b \in S : a <= b

Max(S) == CHOOSE a \in S : \A b \in S : b <= a

ObjA1 == JObject([k \in {"a"} |-> Num])

(* The text the claim says is parsed: the interior of the first fenced     *)
(* block when there is one (after its tag), the whole text otherwise; and  *)
(* of that, the span from the first opening to the last closing brace.     *)
C10_Remaining(text) ==
    LET fences == {i \in 1..Len(text) : text[i] = FENCE}
    IN  IF Cardinality(fences) < 2 THEN text
        ELSE LET i == Min(fences)
                 j == Min(fences \ {i})
                 inner == SubSeq(text, i + 1, j - 1)
             IN  IF inner # <<>> /\ Head(inner) = TAG THEN Tail(inner) ELSE inner

C10_Span(rem) ==
    LET lbs == {i \in 1..Len(rem) : rem[i] = LB}
        rbs == {i \in 1..Len(rem) : rem[i] = RB}
    IN  IF lbs # {} /\ rbs # {} /\ Min(lbs) < Max(rbs)
        THEN SubSeq(rem, Min(lbs), Max(rbs))
        ELSE rem

(* C10: for a text with a fenced code block _extract_json parses only the  *)
(* interior of that block, ignoring prose and braces outside it; within    *)
(* the remaining text it parses the span from the first opening brace      *)
(* through the last closing brace; both documented examples yield the      *)
(* object with the single member a = 1.                                    *)
C10_ExtractOrder ==
    ex_pc = "done" =>
        /\ ex_result = json_loads(C10_Span(C10_Remaining(ex_text)))
        /\ ex_text \in {FencedExample, NoisyExample, BracesOutsideExample}
              => ex_result = ObjA1

C10_Witness ==
    /\ ex_pc = "done"
    /\ ex_text = FencedExample
    /\ ex_result = ObjA1

Range(q) == {q[i] : i \in DOMAIN q}

Returned == rg_pc = <<"returned", "">>

HasRaised == rg_pc = <<"raised", "">>

(* C1: generate_json never raises, whatever retrieval and generation do,   *)
(* a missing credential being the only permitted exception.                *)
C1_NeverRaises == HasRaised => ~rg_credential

RequiredType(k) == IF k \in {"title", "description", "pro_tip"} THEN "str" ELSE "list"

(* C2: every returned document has the six required fields, each of its    *)
(* type: title, description and pro_tip strings, steps, troubleshooting    *)
(* and safety sequences.                                                   *)
C2_RequiredFieldsTyped ==
    Returned =>
        \A k \in RequiredKeys :
            /\ k \in DOMAIN rg_data.fields
            /\ rg_data.fields[k].type = RequiredType(k)

(* Every invocation of a generation interface during the call failed.      *)
GenerationFailedEntirely ==
    /\ rg_calls # <<>>
    /\ \A i \in DOMAIN rg_calls : ~rg_calls[i].ok

C8_ConfigErrorSurfaces == ~rg_credential => ~Returned

(* C8 as amended: with the credential absent no generation interface is    *)
(* invoked, generate_json does not raise and what it returns is a Tier 1   *)
(* scaffold.                                                               *)
C8_ConfigErrorAbsorbed ==
    ~rg_credential =>
        /\ ~HasRaised
        /\ rg_calls = <<>>
        /\ Returned =>
              rg_data \in {QuestionOnlyScaffold(rg_question), FallbackScaffold(rg_question)}

C8_Witness ==
    /\ ~rg_credential
    /\ Returned
    /\ rg_data.fields["steps"].len = 1

(* C9: the prompt is the ungrounded template exactly when there is no      *)
(* passage and the grounded one exactly when there is one; the abstain     *)
(* rule is a line of the prompt iff it is grounded, the general-knowledge  *)
(* rule iff it is ungrounded.                                              *)
C9_PromptMode ==
    bp_pc = "done" =>
        LET lines == Range(bp_prompt)
            grounded == /\ bp_prompt[1] = IntroGrounded
                        /\ ContextHeader \in lines
                        /\ \A i \in DOMAIN bp_context :
                              PassageLine(i, bp_context[i]) \in lines
            ungrounded == /\ bp_prompt[1] = IntroUngrounded
                          /\ ContextHeader \notin lines
                          /\ \A l \in lines : l.kind # "passage"
        IN  /\ ungrounded <=> bp_context = <<>>
            /\ grounded <=> bp_context # <<>>
            /\ AbstainRule \in lines <=> grounded
            /\ GeneralKnowledgeRule \in lines <=> ungrounded
            /\ QuestionLine(bp_question) \in lines

C9_Witness ==
    /\ bp_pc = "done"
    /\ bp_context = <<>>
    /\ bp_question = <<AbstainText>>
    /\ GeneralKnowledgeRule \in Range(bp_prompt)
    /\ AbstainRule \notin Range(bp_prompt)

(* The content is the whole of one generated image.                        *)
Complete(content) ==
    \E p \in Procs, c \in 1..MaxCalls, i \in 1..MaxSteps : content = ImageOf(p, c, i)

FinalFilesComplete ==
    \A k \in Keys :
        path_exists(fpath(k)) => Complete(im_inode[im_dir[fpath(k)]])

(* C4: in every interleaving of concurrent calls that miss the cache on    *)
(* the same key, no backend or write failing, the file at the final path,  *)
(* whenever it exists, holds the complete bytes of one generated image.    *)
C4_FinalNeverPartial == ~im_fault => FinalFilesComplete

(* C5: when concurrent requests for the same tuple start from an empty     *)
(* cache and nothing fails, every request succeeds: no step gets an        *)
(* image_error, and once all have returned the final path exists.          *)
C5_ConcurrentRequestsSucceed ==
    (~im_fault /\ \A p \in Procs : im_pc[p] = "returned") =>
        \A p \in Procs : \A j \in DOMAIN im_out[p] :
            HasContent(im_out[p][j]) =>
                /\ im_out[p][j].image_error = NoError
                /\ path_exists(fpath(StepKey(im_out[p][j])))

(* C6: once an image has been stored for a tuple, a step with the same     *)
(* tuple that begins later (in the same or a later request) gets the same  *)
(* key and image_url and never reaches the backend; the stored file stays. *)
C6_StoredImageIsReused ==
    /\ \A p \in Procs :
          im_pc[p] \in {"generate", "open", "write", "replace"} => ~im_sawStored[p]
    /\ \A k \in Keys : im_stored[k] => path_exists(fpath(k))
    /\ \A p \in Procs : \A j \in DOMAIN im_out[p] :
          HasContent(im_out[p][j]) =>
              im_out[p][j].image_url =
                  ImageUrl(CacheKey(OrEmptyStrip(im_out[p][j].title),
                                    OrEmptyStrip(im_out[p][j].action)))

(* A second request meets the image stored by the first and returns the    *)
(* step without an error.                                                  *)
C6_Witness ==
    /\ im_calls[1] = 2
    /\ im_pc[1] = "returned"
    /\ im_sawStored[1]
    /\ Len(im_out[1]) = 1
    /\ im_out[1][1].image_error = NoError
    /\ im_out[1][1].image_url = ImageUrl(CacheKey("Open", "Tap"))

(* C7: when the write of a single writer is interrupted between the open   *)
(* of the temporary file and the rename, the final path does not exist     *)
(* afterwards; partial bytes are at the temporary path only.               *)
C7_InterruptedWriteLeavesNoFinal ==
    /\ [][\A p \in Procs :
            (WriteFails(p) \/ Crash(p)) =>
                LET f == fpath(CurKey(p)) IN im_dir'[f] = NoFile]_vars
    /\ []FinalFilesComplete

C7_Witness ==
    /\ im_pc[1] = "crashed"
    /\ \E k \in Keys :
          /\ ~path_exists(fpath(k))
          /\ path_exists(tmp_path(fpath(k)))
          /\ Len(im_inode[im_dir[tmp_path(fpath(k))]]) \in 1..(ImgChunks - 1)

-----------------------------------------------------------------------------
NoBraces(text) == \A i \in DOMAIN text : text[i] \notin {LB, RB}

(* C11 as stated: _extract_json fails, returning no value, for the empty   *)
(* text and for every text that has no braces and is not itself parseable  *)
(* JSON.                                                                   *)
C11_NoBracesUnparseableFails ==
    ex_pc = "done" =>
        ((ex_text = <<>> \/ (NoBraces(ex_text) /\ json_loads(ex_text) = Raised))
            => ex_result = Raised)

(* C11 as amended: _extract_json fails for the empty text and for every    *)
(* text without braces whose content, the interior of its first fenced     *)
(* block when it has one and the whole text otherwise, is not parseable    *)
(* JSON.                                                                   *)
C11_NoBracesUnparseableContentFails ==
    ex_pc = "done" =>
        ((ex_text = <<>>
            \/ (NoBraces(ex_text) /\ json_loads(C10_Remaining(ex_text)) = Raised))
            => ex_result = Raised)

(* Prose in a tagged fence, no braces anywhere: extraction has failed.     *)
C11_Witness ==
    /\ ex_pc = "done"
    /\ ex_text = <<FENCE, TAG, PROSE, FENCE>>
    /\ ex_result = Raised

-----------------------------------------------------------------------------
(* C12: when the imports, the embedding or the search of retrieve raise,   *)
(* retrieve yields the empty sequence and nothing propagates; generate_json *)
(* goes on to generation, and every prompt it sends is the ungrounded one. *)
C12_RetrievalAdvisory ==
    rg_retrieval \in RetrievalErrors =>
        /\ rg_context = <<>>
        /\ rg_error \notin RetrievalErrors
        /\ rg_pc # <<"retrieve", "">>
        /\ \A i \in DOMAIN rg_calls :
              /\ rg_calls[i].prompt = _build_prompt(rg_question, <<>>)
              /\ rg_calls[i].prompt[1] = IntroUngrounded
        /\ (rg_credential /\ rg_pc \in {<<"normalize", "">>, <<"returned", "">>, <<"raised", "">>})
              => rg_calls # <<>>

(* The embedding raised, and the call returned the document of a           *)
(* generation that was asked with the ungrounded prompt.                   *)
C12_Witness ==
    /\ rg_retrieval = "embed_error"
    /\ Returned
    /\ rg_calls # <<>>
    /\ rg_calls[Len(rg_calls)].ok
    /\ GeneralKnowledgeRule \in Range(rg_calls[Len(rg_calls)].prompt)

-----------------------------------------------------------------------------
(* An image_error of the form: error kind, colon and space, message.       *)
WellFormedError(err) ==
    /\ Len(err) = 3
    /\ err[1] # ""
    /\ err[2] = ": "

(* The backend failed for the step that is now entry j of the output.      *)
BackendFailed(p, j) ==
    im_out[p][j].image_error = FormatError(Exc("RuntimeError", "Stability API error: 500"))

(* C13: a step for which the image backend failed carries an image_error   *)
(* of the form kind: message and the image_url of its would-be cache path, *)
(* and the failure does not stop the loop: the call returns every step,    *)
(* and every step with content after the failed one has its image_url.     *)
C13_FailureKeepsGoing ==
    \A p \in Procs :
        /\ Len(im_out[p]) <= Len(im_steps[p])
        /\ \A j \in DOMAIN im_out[p] :
              im_out[p][j].image_error # NoError =>
                  /\ WellFormedError(im_out[p][j].image_error)
                  /\ im_out[p][j].image_url = ImageUrl(StepKey(im_steps[p][j]))
        /\ im_pc[p] = "returned" =>
              /\ Len(im_out[p]) = Len(im_steps[p])
              /\ \A j \in DOMAIN im_out[p] : \A l \in DOMAIN im_out[p] :
                    (BackendFailed(p, j) /\ l > j /\ HasContent(im_steps[p][l]))
                        => im_out[p][l].image_url = ImageUrl(StepKey(im_steps[p][l]))

(* The backend failed for the first of two steps; the second one got its   *)
(* image and its image_url.                                                *)
C13_Witness ==
    /\ im_pc[1] = "returned"
    /\ Len(im_out[1]) = 2
    /\ BackendFailed(1, 1)
    /\ im_out[1][1].image_url = ImageUrl(StepKey(im_steps[1][1]))
    /\ im_out[1][2].image_error = NoError
    /\ im_out[1][2].image_url = ImageUrl(StepKey(im_steps[1][2]))
    /\ StepKey(im_steps[1][2]) # StepKey(im_steps[1][1])

-----------------------------------------------------------------------------
(* The image_url /static/images/<key>.png of a step, the key being the     *)
(* cache key of its trimmed title and action, the style and the provider.  *)
UrlOfStep(s) ==
    [dir |-> "/static/images/",
     name |-> _slug(<<OrEmptyStrip(s.title), "|", OrEmptyStrip(s.action), "|",
                      IMAGE_STYLE, "|", IMAGE_PROVIDER>>),
     ext |-> ".png"]

(* C14: once attach_step_images has returned, every step whose trimmed     *)
(* title or action is non-empty has its image_url set to the path of its   *)
(* cache key, whether its image was found, generated or failed.            *)
C14_ContentStepsHaveUrl ==
    \A p \in Procs :
        im_pc[p] = "returned" =>
            /\ Len(im_out[p]) = Len(im_steps[p])
            /\ \A j \in DOMAIN im_steps[p] :
                  (OrEmptyStrip(im_steps[p][j].title) # ""
                      \/ OrEmptyStrip(im_steps[p][j].action) # "")
                  => /\ im_out[p][j].image_url = UrlOfStep(im_steps[p][j])
                     /\ im_out[p][j].title = im_steps[p][j].title
                     /\ im_out[p][j].action = im_steps[p][j].action

(* A second request returned two steps with their image_url: the first a   *)
(* cache hit on the image the first request stored, the second a step      *)
(* whose generation failed.                                                *)
C14_Witness ==
    /\ im_calls[1] = 2
    /\ im_pc[1] = "returned"
    /\ Len(im_out[1]) = 2
    /\ HasContent(im_steps[1][1])
    /\ HasContent(im_steps[1][2])
    /\ im_stored[StepKey(im_steps[1][1])]
    /\ im_inode[im_dir[fpath(StepKey(im_steps[1][1]))]] = ImageOf(1, 1, 1)
    /\ im_out[1][1].image_error = NoError
    /\ im_out[1][1].image_url = UrlOfStep(im_steps[1][1])
    /\ im_out[1][2].image_error # NoError
    /\ im_out[1][2].image_url = UrlOfStep(im_steps[1][2])

-----------------------------------------------------------------------------
CallsOf(iface) == {i \in DOMAIN rg_calls : rg_calls[i].iface = iface}

(* C15: during one generate_json call each generation interface is invoked *)
(* at most once, so the backend is called at most twice, with passages and *)
(* without.                                                                *)
C15_EachInterfaceAtMostOnce ==
    /\ Cardinality(CallsOf("primary")) <= 1
    /\ Cardinality(CallsOf("secondary")) <= 1
    /\ Len(rg_calls) <= 2

-----------------------------------------------------------------------------
(* The primary interface answered invocation i with a text that            *)
(* _extract_json could not parse.                                          *)
PrimaryParseFailure(i) ==
    /\ rg_calls[i].iface = "primary"
    /\ rg_calls[i].text # NoText
    /\ _extract_json(rg_calls[i].text) = Raised

(* C16: when the text of the primary interface fails extraction, the       *)
(* failure is final for that _call_llm_for_json call: no further           *)
(* interface is invoked in it.                                             *)
C16_ParseFailureNotRetried ==
    \A i \in DOMAIN rg_calls :
        PrimaryParseFailure(i) =>
            \A j \in DOMAIN rg_calls :
                j > i => rg_calls[j].stage # rg_calls[i].stage

-----------------------------------------------------------------------------
(* C17: in a _call_llm_for_json call the secondary interface is invoked    *)
(* only after the primary has raised, with the same prompt and the same    *)
(* model identifier; after a primary that succeeded it is not invoked; and *)
(* the call fails with its generation error, which the handler turns into  *)
(* the scaffold of the stage, only after both interfaces have failed.      *)
C17_SecondaryOnlyAfterPrimary ==
    /\ \A i \in DOMAIN rg_calls :
          rg_calls[i].iface = "secondary" =>
              /\ i > 1
              /\ rg_calls[i - 1].iface = "primary"
              /\ rg_calls[i - 1].stage = rg_calls[i].stage
              /\ ~rg_calls[i - 1].ok
              /\ rg_calls[i - 1].prompt = rg_calls[i].prompt
              /\ rg_calls[i - 1].model = rg_calls[i].model
    /\ \A i \in DOMAIN rg_calls :
          (rg_calls[i].iface = "primary" /\ rg_calls[i].ok) =>
              /\ rg_pc # <<rg_calls[i].stage, "secondary">>
              /\ \A j \in DOMAIN rg_calls :
                    j > i => rg_calls[j].stage # rg_calls[i].stage
    /\ \A st \in Stages :
          (rg_credential /\ rg_data = StageScaffold(st)) =>
              \E i \in DOMAIN rg_calls :
                  /\ rg_calls[i].stage = st
                  /\ rg_calls[i].iface = "primary"
                  /\ ~rg_calls[i].ok
                  /\ i + 1 \in DOMAIN rg_calls
                  /\ rg_calls[i + 1].stage = st
                  /\ rg_calls[i + 1].iface = "secondary"
                  /\ ~rg_calls[i + 1].ok

(* With passages and the model gpt-4o: the primary raised, the secondary   *)
(* was invoked with the same prompt and model, and its object returned.    *)
C17_Witness ==
    /\ Returned
    /\ rg_context # <<>>
    /\ rg_model = "gpt-4o"
    /\ Len(rg_calls) = 2
    /\ rg_calls[1].iface = "primary"
    /\ rg_calls[1].text = NoText
    /\ rg_calls[2].iface = "secondary"
    /\ rg_calls[2].ok
    /\ rg_calls[2].model = "gpt-4o"
    /\ rg_calls[2].prompt = rg_calls[1].prompt

-----------------------------------------------------------------------------
(* The document is the object obj with nothing but defaults added: every   *)
(* key of obj keeps its value, and every other key is a required key with  *)
(* its default.                                                            *)
VerbatimWithDefaults(doc, obj) ==
    /\ doc.kind = "object"
    /\ DOMAIN doc.fields = DOMAIN obj.fields \cup RequiredKeys
    /\ \A k \in DOMAIN obj.fields : doc.fields[k] = obj.fields[k]
    /\ \A k \in DOMAIN doc.fields \ DOMAIN obj.fields : doc.fields[k] = Default(k)

(* A generation of the request succeeded with an object.                   *)
SucceededWithObject(i) == rg_calls[i].ok /\ rg_calls[i].result.kind = "object"

(* C18: whenever generation succeeded, the document generate_json returns  *)
(* is the object the model gave, verbatim but for the defaults of absent   *)
(* required keys; a scaffold is returned only when generation failed.      *)
C18_ModelObjectVerbatim ==
    (Returned /\ \E i \in DOMAIN rg_calls : SucceededWithObject(i)) =>
        \E i \in DOMAIN rg_calls :
            /\ SucceededWithObject(i)
            /\ VerbatimWithDefaults(rg_data, rg_calls[i].result)

-----------------------------------------------------------------------------
(* The scaffold with the generic content of rag.py 203-218.                *)
IsStartSmallScaffold(doc) ==
    /\ doc.kind = "object"
    /\ doc.fields["steps"] = List(1, <<"Start with the basics">>)
    /\ doc.fields["description"] =
          Str(<<"This guide was generated without RAG (question-only).">>)

(* C19: when retrieval gave no passages and generation fails, the document *)
(* returned is the question-only scaffold (step Start with the basics,     *)
(* description generated without RAG), not the scaffold that sends the     *)
(* user to the provided document.                                          *)
C19_UngroundedScaffoldIsGeneric ==
    (Returned /\ rg_context = <<>> /\ \A i \in DOMAIN rg_calls : ~rg_calls[i].ok) =>
        /\ IsStartSmallScaffold(rg_data)
        /\ rg_data.fields["steps"] # List(1, <<"Review the provided document">>)

-----------------------------------------------------------------------------
(* C20: with the credential absent _call_llm_for_json raises its           *)
(* configuration error before it invokes either interface: no backend call *)
(* is made, no interface is ever about to be invoked, and each call of     *)
(* _call_llm_for_json that has been made ended in the handler of its       *)
(* caller.                                                                 *)
C20_FailFastWithoutCredential ==
    ~rg_credential =>
        /\ Len(rg_calls) = 0
        /\ \A st \in Stages :
              rg_pc \notin {<<st, "primary">>, <<st, "secondary">>}
        /\ (rg_pc = <<"llm", "enter">> /\ rg_context = <<>>)
              => rg_data = StageScaffold("qo")
        /\ rg_pc = <<"normalize", "">> => rg_data = StageScaffold("llm")

(* With passages and no credential: the one call of _call_llm_for_json     *)
(* has raised, nothing was sent to the backend.                            *)
C20_Witness ==
    /\ ~rg_credential
    /\ rg_pc = <<"normalize", "">>
    /\ rg_context # <<>>
    /\ rg_calls = <<>>
    /\ rg_data = StageScaffold("llm")

-----------------------------------------------------------------------------
(* The question begins with how do I or how to, in whatever letter case.   *)
LeadingPhrasings == {"how do i", "how to"}

StartsWithPhrasing(question) ==
    question # <<>> /\ Lower(Head(question)) \in LeadingPhrasings

(* C21: when generation failed and the question begins with how do I or    *)
(* how to in any letter case, the title of the scaffold is How to followed *)
(* by the capitalized rest of the question, the phrasing not repeated.     *)
C21_ScaffoldTitleStripsPhrasing ==
    (Returned /\ StartsWithPhrasing(rg_question)
        /\ \A i \in DOMAIN rg_calls : ~rg_calls[i].ok) =>
        LET title == rg_data.fields["title"]
        IN  /\ title = Str(<<"How to ">> \o capitalize(strip(Tail(rg_question))))
            /\ \A i \in 2..Len(title.text) :
                  Lower(title.text[i]) \notin LeadingPhrasings

-----------------------------------------------------------------------------
(* C22: a failed generation is not cached.  While the last generation for  *)
(* a key has failed at the backend and no image has been stored since, no  *)
(* file is at the final path of the key; the next step with that tuple     *)
(* misses the cache and goes to the backend again; and when that           *)
(* generation is stored the step gets no image_error.                      *)
C22_FailureIsNotCached ==
    /\ [](\A k \in Keys : im_failed[k] = "failed" => ~path_exists(fpath(k)))
    /\ [][\A p \in Procs :
            (im_pc[p] \in {"step", "replace"} /\ HasContent(CurStep(p))
                /\ im_failed[CurKey(p)] = "failed") =>
                LET k == CurKey(p)
                    n == Len(im_out[p]) + 1
                IN  /\ CheckCache(p) => im_pc'[p] = "generate"
                    /\ Replace(p) =>
                          /\ im_dir'[fpath(k)] # NoFile
                          /\ im_failed'[k] = "retried"
                          /\ im_out'[p][n].image_error = NoError
                          /\ im_out'[p][n].image_url = ImageUrl(k)]_vars

(* The backend failed for the step in the first request; the second        *)
(* request generated the image anew and returned the step without error.   *)
C22_Witness ==
    /\ im_calls[1] = 2
    /\ im_pc[1] = "returned"
    /\ Len(im_out[1]) = 1
    /\ HasContent(im_steps[1][1])
    /\ im_failed[StepKey(im_steps[1][1])] = "retried"
    /\ im_out[1][1].image_error = NoError
    /\ im_inode[im_dir[fpath(StepKey(im_steps[1][1]))]] = ImageOf(1, 2, 1)

(***************************************************************************)
(* C23.  attach_step_images keeps the number and the order of the steps,   *)
(* leaves a step whose title and action are both empty as it was (no       *)
(* image_url, no image_error, and the backend is not called for it), and   *)
(* changes no top-level field of the document other than steps.            *)
(***************************************************************************)
InBackendOrWrite(p) == im_pc[p] \in {"generate", "open", "write", "replace"}

C23_StepsAndFieldsPreserved ==
    \A p \in Procs :
        /\ Len(im_out[p]) <= Len(im_steps[p])
        /\ \A j \in DOMAIN im_out[p] :
              /\ im_out[p][j].title = im_steps[p][j].title
              /\ im_out[p][j].action = im_steps[p][j].action
              /\ ~HasContent(im_steps[p][j]) => im_out[p][j] = im_steps[p][j]
        /\ InBackendOrWrite(p) => HasContent(CurStep(p))
        /\ im_pc[p] = "returned" =>
              /\ Len(im_out[p]) = Len(im_steps[p])
              /\ im_data[p].steps = im_out[p]
              /\ im_data[p].title = <<"guide", p, im_calls[p]>>
              /\ im_data[p].description = "about"
              /\ im_data[p].abstain = FALSE

(* A call has returned a document of two different steps, the first with   *)
(* no content and the second with an image attached.                       *)
C23_Witness ==
    /\ im_pc[1] = "returned"
    /\ Len(im_steps[1]) = 2
    /\ ~HasContent(im_steps[1][1])
    /\ HasContent(im_steps[1][2])
    /\ im_out[1][1] = im_steps[1][1]
    /\ im_out[1][2].image_url # NoUrl
    /\ im_data[1].steps = im_out[1]

(***************************************************************************)
(* C24.  ensure_collection is idempotent and non-destructive: once a call  *)
(* has returned the collection exists, and a call made while the           *)
(* collection exists never recreates it, so that the points stored         *)
(* earlier are retained, also when the existence check fails for a reason  *)
(* other than the collection being absent.                                 *)
(***************************************************************************)
C24_EnsureIsNonDestructive ==
    /\ qd_ensured /\ qd_pc = "idle" => qd_exists
    /\ qd_wiped = {}

====
